---- MODULE Spec2Model ----
(***************************************************************************)
(* State-machine model of updater.py (minecraft-modpack-updater):          *)
(* update_mods, the reconciliation pass, together with the helpers it      *)
(* calls (calculate_sha256, download_file) and the shell entry point       *)
(* ModUpdaterGUI.run_update that starts a pass and catches its exception.  *)
(*                                                                         *)
(* The disk is a map from file names to what is at that path in the mod    *)
(* folder: nothing, a directory, or a regular file with some body.  The    *)
(* network is the environment: the manifest request and every download     *)
(* pick their outcome nondeterministically.                                *)
(***************************************************************************)
EXTENDS Integers, Sequences, FiniteSets, TLC

\* Longest "mods" list of the published manifest.
MaxMods == 2

\* File names that may occur in the mod folder.
Names == {"a.jar", "b.jar", "c.jar"}

\* Bodies of regular files.  "part" is the truncated body a transfer that
\* breaks off midway leaves behind.
Contents == {"c1", "c2", "part"}

\* Bodies the remote host may serve in a transfer that runs to its end.
Served == {"c1", "c2"}

Absent == "absent"
Dir == "dir"

\* What can be at a path of the mod folder.
PathStates == Contents \cup {Absent, Dir}

BASE_MOD_URL == "https://raw.githubusercontent.com/you-cant-run/minecraft-modpack-updater/main/"

\* A string built with + is the tuple of its pieces.
Concat(s, t) == s \o t

\* hashlib.sha256 of a body: distinct bodies have distinct digests.
Sha256(c) ==
    CASE c = "c1" -> "d1"
      [] c = "c2" -> "d2"
      [] c = "part" -> "d0"

None == "None"

\* calculate_sha256(filepath), for a path that is absent or a regular file.
calculate_sha256(f) == IF f = Absent THEN None ELSE Sha256(f)

\* open(filepath, "rb") raises for a path that exists but cannot be read as
\* a file (a directory).
HashRaises(f) == f = Dir

\* Variant of Exists: the path tested is never the file's path.
ExistsNever(f) == FALSE

\* os.path.exists
Exists(f) == f # Absent

\* os.path.isfile
IsFile(f) == f \in Contents

\* Entries the published "mods" list is made of: the three locator shapes,
\* both locators at once, a name listed under two digests, and entries
\* lacking a required key.
ModPool ==
    { [name |-> "a.jar", sha256 |-> "d1"],
      [name |-> "a.jar", sha256 |-> "d2", url |-> "https://cdn/a.jar"],
      [name |-> "b.jar", sha256 |-> "d1", file |-> "custom/b.jar"],
      [name |-> "b.jar", sha256 |-> "d2", url |-> "https://cdn/b.jar",
                                          file |-> "custom/b.jar"],
      [sha256 |-> "d1"],
      [name |-> "a.jar"] }

ModLists == UNION { [1..n -> ModPool] : n \in 0..MaxMods }

\* JSON documents the manifest URL may hold.
Docs == { [version |-> "1"], [modpack |-> [title |-> "pack"]] }
            \cup { [modpack |-> [mods |-> ms]] : ms \in ModLists }

\* Response bodies of the manifest URL: JSON text of a document, or text
\* json.loads rejects.
Bodies == { [valid |-> FALSE] } \cup { [valid |-> TRUE, value |-> d] : d \in Docs }

VARIABLES
    remote,             \* body published at MANIFEST_URL
    dirExists,          \* the mod folder exists
    fs,                 \* mod folder: name -> PathStates
    pc,                 \* position of the shell / of update_mods
    remove_files,       \* parameter of update_mods
    manifest,           \* update_mods local
    mods,               \* update_mods local
    existing_files,     \* update_mods local (snapshot of os.listdir)
    files_in_manifest,  \* update_mods local
    idx,                \* position of "for mod in mods" (1-based)
    target_url,         \* update_mods local
    pending,            \* elements of existing_files the removal loop has not visited
    removed_count,      \* update_mods local
    log,                \* messages given to log_callback by this run
    cause,              \* what raised, when pc = "raised"
    downloads,          \* history: download_file calls of this run
    delAttempts,        \* history: names os.remove was called on in this run
    deleted,            \* history: names os.remove removed in this run
    fs0,                \* history: fs when this run started
    dirExists0,         \* history: dirExists when this run started
    prev,               \* history: summary of the previous run
    keepHistory,        \* history: whether prev is recorded at all
    status              \* what run_update reported last

vars == << remote, dirExists, fs, pc, remove_files, manifest, mods,
           existing_files, files_in_manifest, idx, target_url, pending,
           removed_count, log, cause, downloads, delAttempts, deleted, fs0,
           dirExists0, prev, keepHistory, status >>

NoDoc == [none |-> TRUE]
NoPrev == [ran |-> FALSE]

\* The state the shell is in before the first run; h says whether the
\* summary of each run is kept for the next.
Start(h) ==
    /\ remote \in Bodies
    /\ dirExists \in BOOLEAN
    /\ fs \in [Names -> PathStates \ {"part"}]
    /\ fs["c.jar"] \in {Absent, "c1"}
    /\ (~dirExists => \A n \in Names : fs[n] = Absent)
    /\ pc = "idle"
    /\ remove_files = TRUE
    /\ manifest = NoDoc
    /\ mods = << >>
    /\ existing_files = {}
    /\ files_in_manifest = {}
    /\ idx = 1
    /\ target_url = << >>
    /\ pending = {}
    /\ removed_count = 0
    /\ log = << >>
    /\ cause = "none"
    /\ downloads = << >>
    /\ delAttempts = {}
    /\ deleted = {}
    /\ fs0 = fs
    /\ dirExists0 = dirExists
    /\ prev = NoPrev
    /\ keepHistory = h
    /\ status = "none"

Init == Start(FALSE)

InitTwice == Start(TRUE)

Raise(c) ==
    /\ pc' = "raised"
    /\ cause' = c

\* Variant of StartRun: the mod folder is created before the manifest is
\* requested.
StartRunMkdirFirst ==
    /\ pc = "idle"
    /\ \E rf \in BOOLEAN : remove_files' = rf
    /\ log' = << <<"Fetching manifest...">> >>
    /\ pc' = "fetch"
    /\ manifest' = NoDoc
    /\ mods' = << >>
    /\ existing_files' = {}
    /\ files_in_manifest' = {}
    /\ idx' = 1
    /\ target_url' = << >>
    /\ pending' = {}
    /\ removed_count' = 0
    /\ cause' = "none"
    /\ downloads' = << >>
    /\ delAttempts' = {}
    /\ deleted' = {}
    /\ fs0' = fs
    /\ dirExists0' = dirExists
    /\ dirExists' = TRUE
    /\ status' = "running"
    /\ UNCHANGED << remote, fs, prev, keepHistory >>

\* run_update starts a pass; update_mods emits its first message.
StartRun ==
    /\ pc = "idle"
    /\ \E rf \in BOOLEAN : remove_files' = rf
    /\ log' = << <<"Fetching manifest...">> >>
    /\ pc' = "fetch"
    /\ manifest' = NoDoc
    /\ mods' = << >>
    /\ existing_files' = {}
    /\ files_in_manifest' = {}
    /\ idx' = 1
    /\ target_url' = << >>
    /\ pending' = {}
    /\ removed_count' = 0
    /\ cause' = "none"
    /\ downloads' = << >>
    /\ delAttempts' = {}
    /\ deleted' = {}
    /\ fs0' = fs
    /\ dirExists0' = dirExists
    /\ status' = "running"
    /\ UNCHANGED << remote, dirExists, fs, prev, keepHistory >>

\* urlopen(MANIFEST_URL) and json.loads(response.read())
FetchManifest ==
    /\ pc = "fetch"
    /\ \E http_ok \in BOOLEAN :
          IF ~http_ok
          THEN Raise("fetch") /\ UNCHANGED << manifest, log >>
          ELSE IF ~remote.valid
          THEN Raise("json") /\ UNCHANGED << manifest, log >>
          ELSE /\ manifest' = remote.value
               /\ log' = Append(log, <<"Manifest loaded. Checking mods...">>)
               /\ pc' = "mods"
               /\ UNCHANGED cause
    /\ UNCHANGED << remote, dirExists, fs, remove_files, mods, existing_files,
                    files_in_manifest, idx, target_url, pending, removed_count,
                    downloads, delAttempts, deleted, fs0, dirExists0, prev,
                    keepHistory, status >>

\* mods = manifest["modpack"]["mods"]
GetMods ==
    /\ pc = "mods"
    /\ IF "modpack" \in DOMAIN manifest /\ "mods" \in DOMAIN manifest.modpack
       THEN /\ mods' = manifest.modpack.mods
            /\ log' = Append(log, <<"Found mods in manifest", Len(manifest.modpack.mods)>>)
            /\ pc' = "scan"
            /\ UNCHANGED cause
       ELSE Raise("key") /\ UNCHANGED << mods, log >>
    /\ UNCHANGED << remote, dirExists, fs, remove_files, manifest,
                    existing_files, files_in_manifest, idx, target_url, pending,
                    removed_count, downloads, delAttempts, deleted, fs0,
                    dirExists0, prev, keepHistory, status >>

\* os.makedirs(mod_folder), the os.listdir snapshot, files_in_manifest = set()
ScanInventory ==
    /\ pc = "scan"
    /\ dirExists' = TRUE
    /\ existing_files' = { f \in Names : IsFile(fs[f]) }
    /\ log' = Append(log, <<"Found existing files in mod folder",
                            Cardinality({ f \in Names : IsFile(fs[f]) })>>)
    /\ files_in_manifest' = {}
    /\ idx' = 1
    /\ pc' = "loop"
    /\ UNCHANGED << remote, fs, remove_files, manifest, mods, target_url,
                    pending, removed_count, cause, downloads, delAttempts,
                    deleted, fs0, dirExists0, prev, keepHistory, status >>

\* Variant of ResolveUrl: the file key is tested before the url key.
ResolveUrlFileFirst(mod) ==
    IF "file" \in DOMAIN mod
    THEN Concat(<< BASE_MOD_URL >>, << mod.file >>)
    ELSE IF "url" \in DOMAIN mod
    THEN << mod.url >>
    ELSE Concat(Concat(<< BASE_MOD_URL >>, << "your-modpack-repo/mods/" >>), << mod.name >>)

\* The locator precedence of the "Determine URL" block.
ResolveUrl(mod) ==
    IF "url" \in DOMAIN mod
    THEN << mod.url >>
    ELSE IF "file" \in DOMAIN mod
    THEN Concat(<< BASE_MOD_URL >>, << mod.file >>)
    ELSE Concat(Concat(<< BASE_MOD_URL >>, << "your-modpack-repo/mods/" >>), << mod.name >>)

\* Variant of Outdated: the digest comparison is lost and every existing
\* file counts as outdated.
OutdatedAlways(f, sha256_hash) == TRUE

\* Variant of Outdated: no existing file counts as outdated.
OutdatedNever(f, sha256_hash) == FALSE

\* The comparison that decides a download for a path that exists.
Outdated(f, sha256_hash) == calculate_sha256(f) # sha256_hash

\* Variant of Decision: a missing file is not marked for download.
DecisionSkipsMissing(f, sha256_hash) ==
    IF ~Exists(f) THEN "uptodate"
    ELSE IF HashRaises(f) THEN "raise"
    ELSE IF Outdated(f, sha256_hash) THEN "outdated"
    ELSE "uptodate"

\* The branches of "if not os.path.exists(filepath): ... else: ...".
Decision(f, sha256_hash) ==
    IF ~Exists(f) THEN "missing"
    ELSE IF HashRaises(f) THEN "raise"
    ELSE IF Outdated(f, sha256_hash) THEN "outdated"
    ELSE "uptodate"

\* One iteration of "for mod in mods" up to the download decision.
CheckMod ==
    /\ pc = "loop"
    /\ idx <= Len(mods)
    /\ LET mod == mods[idx] IN
       IF "name" \notin DOMAIN mod \/ "sha256" \notin DOMAIN mod
       THEN /\ Raise("key")
            /\ UNCHANGED << files_in_manifest, target_url, log, idx >>
       ELSE LET filename == mod.name
                sha256_hash == mod.sha256
            IN /\ files_in_manifest' = files_in_manifest \cup {filename}
               /\ target_url' = ResolveUrl(mod)
               /\ LET d == Decision(fs[filename], sha256_hash) IN
                  CASE d = "missing" ->
                         /\ log' = Append(log, <<"Missing", filename>>)
                         /\ pc' = "download"
                         /\ UNCHANGED << idx, cause >>
                    [] d = "raise" ->
                         /\ Raise("hash")
                         /\ UNCHANGED << log, idx >>
                    [] d = "outdated" ->
                         /\ log' = Append(log, <<"Outdated", filename>>)
                         /\ pc' = "download"
                         /\ UNCHANGED << idx, cause >>
                    [] d = "uptodate" ->
                         /\ log' = Append(log, <<"Up to date", filename>>)
                         /\ idx' = idx + 1
                         /\ UNCHANGED << pc, cause >>
    /\ UNCHANGED << remote, dirExists, fs, remove_files, manifest, mods,
                    existing_files, pending, removed_count, downloads,
                    delAttempts, deleted, fs0, dirExists0, prev, keepHistory, status >>

\* Outcomes of download_file: the request fails before the destination is
\* opened, the transfer breaks off after it was opened, or a body arrives.
TransferOutcomes == { <<"neterr", "-">>, <<"ioerr", "-">> } \cup { <<"ok", c>> : c \in Served }

\* The outcome as the history of the run keeps it.  A request that fails
\* while a partial file is at the path leaves what a transfer that breaks off
\* leaves, and is kept as one.
Recorded(o, f) == IF o[1] = "neterr" /\ f = "part" THEN <<"ioerr", "-">> ELSE o

\* Variant of DownloadMod: an entry whose download failed is tried again.
DownloadModRetry ==
    /\ pc = "download"
    /\ LET mod == mods[idx]
           filename == mod.name
           sha256_hash == mod.sha256
           logged == Append(log, <<"Downloading", filename, target_url>>)
       IN \E o \in TransferOutcomes :
            CASE o[1] = "neterr" ->
                   /\ fs' = fs
                   /\ log' = Append(logged, <<"Download failed", filename>>)
                   /\ downloads' = Append(downloads,
                          [i |-> idx, name |-> filename, url |-> target_url, res |-> "failed", out |-> Recorded(o, fs[filename])])
                   /\ UNCHANGED << idx, pc >>
              [] o[1] = "ioerr" ->
                   /\ fs' = [fs EXCEPT ![filename] = "part"]
                   /\ log' = Append(logged, <<"Download failed", filename>>)
                   /\ downloads' = Append(downloads,
                          [i |-> idx, name |-> filename, url |-> target_url, res |-> "failed", out |-> Recorded(o, fs[filename])])
                   /\ UNCHANGED << idx, pc >>
              [] o[1] = "ok" ->
                   /\ fs' = [fs EXCEPT ![filename] = o[2]]
                   /\ idx' = idx + 1
                   /\ pc' = "loop"
                   /\ IF calculate_sha256(o[2]) = sha256_hash
                      THEN /\ log' = Append(logged, <<"Download successful", filename>>)
                           /\ downloads' = Append(downloads,
                                [i |-> idx, name |-> filename, url |-> target_url, res |-> "ok", out |-> Recorded(o, fs[filename])])
                      ELSE /\ log' = Append(logged, <<"Hash mismatch after download", filename>>)
                           /\ downloads' = Append(downloads,
                                [i |-> idx, name |-> filename, url |-> target_url, res |-> "mismatch", out |-> Recorded(o, fs[filename])])
    /\ UNCHANGED << remote, dirExists, remove_files, manifest, mods,
                    existing_files, files_in_manifest, target_url, pending,
                    removed_count, cause, delAttempts, deleted, fs0, dirExists0,
                    prev, keepHistory, status >>

\* Variant of DownloadMod: a download that fails ends the loop over the
\* entries, so that the entries after it are not processed.
DownloadModBreak ==
    /\ pc = "download"
    /\ LET mod == mods[idx]
           filename == mod.name
           sha256_hash == mod.sha256
           logged == Append(log, <<"Downloading", filename, target_url>>)
       IN \E o \in TransferOutcomes :
            CASE o[1] = "neterr" ->
                   /\ fs' = fs
                   /\ log' = Append(logged, <<"Download failed", filename>>)
                   /\ downloads' = Append(downloads,
                          [i |-> idx, name |-> filename, url |-> target_url, res |-> "failed", out |-> Recorded(o, fs[filename])])
              [] o[1] = "ioerr" ->
                   /\ fs' = [fs EXCEPT ![filename] = "part"]
                   /\ log' = Append(logged, <<"Download failed", filename>>)
                   /\ downloads' = Append(downloads,
                          [i |-> idx, name |-> filename, url |-> target_url, res |-> "failed", out |-> Recorded(o, fs[filename])])
              [] o[1] = "ok" ->
                   /\ fs' = [fs EXCEPT ![filename] = o[2]]
                   /\ IF calculate_sha256(o[2]) = sha256_hash
                      THEN /\ log' = Append(logged, <<"Download successful", filename>>)
                           /\ downloads' = Append(downloads,
                                [i |-> idx, name |-> filename, url |-> target_url, res |-> "ok", out |-> Recorded(o, fs[filename])])
                      ELSE /\ log' = Append(logged, <<"Hash mismatch after download", filename>>)
                           /\ downloads' = Append(downloads,
                                [i |-> idx, name |-> filename, url |-> target_url, res |-> "mismatch", out |-> Recorded(o, fs[filename])])
    /\ idx' = IF downloads'[Len(downloads')].res = "failed" THEN Len(mods) + 1 ELSE idx + 1
    /\ pc' = "loop"
    /\ UNCHANGED << remote, dirExists, remove_files, manifest, mods,
                    existing_files, files_in_manifest, target_url, pending,
                    removed_count, cause, delAttempts, deleted, fs0, dirExists0,
                    prev, keepHistory, status >>

\* The rest of the iteration: "if should_download".
DownloadMod ==
    /\ pc = "download"
    /\ LET mod == mods[idx]
           filename == mod.name
           sha256_hash == mod.sha256
           logged == Append(log, <<"Downloading", filename, target_url>>)
       IN \E o \in TransferOutcomes :
            CASE o[1] = "neterr" ->
                   /\ fs' = fs
                   /\ log' = Append(logged, <<"Download failed", filename>>)
                   /\ downloads' = Append(downloads,
                          [i |-> idx, name |-> filename, url |-> target_url, res |-> "failed", out |-> Recorded(o, fs[filename])])
              [] o[1] = "ioerr" ->
                   /\ fs' = [fs EXCEPT ![filename] = "part"]
                   /\ log' = Append(logged, <<"Download failed", filename>>)
                   /\ downloads' = Append(downloads,
                          [i |-> idx, name |-> filename, url |-> target_url, res |-> "failed", out |-> Recorded(o, fs[filename])])
              [] o[1] = "ok" ->
                   /\ fs' = [fs EXCEPT ![filename] = o[2]]
                   /\ IF calculate_sha256(o[2]) = sha256_hash
                      THEN /\ log' = Append(logged, <<"Download successful", filename>>)
                           /\ downloads' = Append(downloads,
                                [i |-> idx, name |-> filename, url |-> target_url, res |-> "ok", out |-> Recorded(o, fs[filename])])
                      ELSE /\ log' = Append(logged, <<"Hash mismatch after download", filename>>)
                           /\ downloads' = Append(downloads,
                                [i |-> idx, name |-> filename, url |-> target_url, res |-> "mismatch", out |-> Recorded(o, fs[filename])])
    /\ idx' = idx + 1
    /\ pc' = "loop"
    /\ UNCHANGED << remote, dirExists, remove_files, manifest, mods,
                    existing_files, files_in_manifest, target_url, pending,
                    removed_count, cause, delAttempts, deleted, fs0, dirExists0,
                    prev, keepHistory, status >>

\* Variant of BeginRemove: the removal phase may start before the loop over
\* the manifest entries has ended.
BeginRemoveEarly ==
    /\ pc = "loop"
    /\ IF remove_files
       THEN /\ log' = Append(log, <<"Checking for files to remove...">>)
            /\ removed_count' = 0
            /\ pending' = existing_files
            /\ pc' = "remove"
       ELSE /\ pc' = "done"
            /\ UNCHANGED << log, removed_count, pending >>
    /\ UNCHANGED << remote, dirExists, fs, remove_files, manifest, mods,
                    existing_files, files_in_manifest, idx, target_url, cause,
                    downloads, delAttempts, deleted, fs0, dirExists0, prev,
                    keepHistory, status >>

\* Variant of BeginRemove: the remove_files flag is not consulted.
BeginRemoveAlways ==
    /\ pc = "loop"
    /\ idx > Len(mods)
    /\ log' = Append(log, <<"Checking for files to remove...">>)
    /\ removed_count' = 0
    /\ pending' = existing_files
    /\ pc' = "remove"
    /\ UNCHANGED << remote, dirExists, fs, remove_files, manifest, mods,
                    existing_files, files_in_manifest, idx, target_url, cause,
                    downloads, delAttempts, deleted, fs0, dirExists0, prev,
                    keepHistory, status >>

\* "if remove_files:" after the last entry.
BeginRemove ==
    /\ pc = "loop"
    /\ idx > Len(mods)
    /\ IF remove_files
       THEN /\ log' = Append(log, <<"Checking for files to remove...">>)
            /\ removed_count' = 0
            /\ pending' = existing_files
            /\ pc' = "remove"
       ELSE /\ pc' = "done"
            /\ UNCHANGED << log, removed_count, pending >>
    /\ UNCHANGED << remote, dirExists, fs, remove_files, manifest, mods,
                    existing_files, files_in_manifest, idx, target_url, cause,
                    downloads, delAttempts, deleted, fs0, dirExists0, prev,
                    keepHistory, status >>

\* Variants of Orphan: the membership test is lost, one way or the other.
OrphanNever(file, in_manifest) == FALSE
OrphanAlways(file, in_manifest) == TRUE

\* Variant of Orphan: the membership test is inverted.
OrphanInverted(file, in_manifest) == file \in in_manifest

\* "if file not in files_in_manifest"
Orphan(file, in_manifest) == file \notin in_manifest

\* One iteration of "for file in existing_files"; os.listdir fixes no order.
RemoveFile ==
    /\ pc = "remove"
    /\ \E file \in pending :
         /\ pending' = pending \ {file}
         /\ IF Orphan(file, files_in_manifest)
            THEN /\ delAttempts' = delAttempts \cup {file}
                 /\ \E removed \in BOOLEAN :
                      IF removed
                      THEN /\ fs' = [fs EXCEPT ![file] = Absent]
                           /\ log' = Append(log, <<"Removed", file>>)
                           /\ removed_count' = removed_count + 1
                           /\ deleted' = deleted \cup {file}
                      ELSE /\ log' = Append(log, <<"Failed to remove", file>>)
                           /\ UNCHANGED << fs, removed_count, deleted >>
            ELSE UNCHANGED << fs, log, removed_count, deleted, delAttempts >>
    /\ UNCHANGED << remote, dirExists, pc, remove_files, manifest, mods,
                    existing_files, files_in_manifest, idx, target_url, cause,
                    downloads, fs0, dirExists0, prev, keepHistory, status >>

\* Variant of EndRemove: the count is compared with 1 instead of 0.
EndRemoveOffByOne ==
    /\ pc = "remove"
    /\ pending = {}
    /\ log' = IF removed_count > 1
              THEN Append(log, <<"Removed file(s)", removed_count>>)
              ELSE Append(log, <<"No files needed removal">>)
    /\ pc' = "done"
    /\ UNCHANGED << remote, dirExists, fs, remove_files, manifest, mods,
                    existing_files, files_in_manifest, idx, target_url, pending,
                    removed_count, cause, downloads, delAttempts, deleted, fs0,
                    dirExists0, prev, keepHistory, status >>

\* The summary after the removal loop.
EndRemove ==
    /\ pc = "remove"
    /\ pending = {}
    /\ log' = IF removed_count > 0
              THEN Append(log, <<"Removed file(s)", removed_count>>)
              ELSE Append(log, <<"No files needed removal">>)
    /\ pc' = "done"
    /\ UNCHANGED << remote, dirExists, fs, remove_files, manifest, mods,
                    existing_files, files_in_manifest, idx, target_url, pending,
                    removed_count, cause, downloads, delAttempts, deleted, fs0,
                    dirExists0, prev, keepHistory, status >>

\* download_file(url, filepath) as a function of the folder: what is at the
\* entry's path after a transfer with outcome o.
Transfer(f, filename, o) ==
    CASE o[1] = "neterr" -> f
      [] o[1] = "ioerr" -> [f EXCEPT ![filename] = "part"]
      [] o[1] = "ok" -> [f EXCEPT ![filename] = o[2]]

\* "for mod in mods" as a function: the loop over the entries ms[order[j]],
\* j = from .. Len(order), started in st, where entry i meets the transfer
\* outcome outs[i].  st holds the folder, the entries downloaded for, the
\* names collected in files_in_manifest and whether the loop is still running.
RECURSIVE LoopFrom(_, _, _, _, _)
LoopFrom(ms, order, outs, from, st) ==
    IF from > Len(order) \/ ~st.running
    THEN st
    ELSE LET i == order[from]
             mod == ms[i]
         IN IF "name" \notin DOMAIN mod \/ "sha256" \notin DOMAIN mod
            THEN [st EXCEPT !.running = FALSE]
            ELSE LET d == Decision(st.fs[mod.name], mod.sha256)
                     seen == st.names \cup {mod.name}
                 IN CASE d = "raise" ->
                           [st EXCEPT !.running = FALSE, !.names = seen]
                      [] d = "uptodate" ->
                           LoopFrom(ms, order, outs, from + 1, [st EXCEPT !.names = seen])
                      [] OTHER ->
                           LoopFrom(ms, order, outs, from + 1,
                                    [fs |-> Transfer(st.fs, mod.name, outs[i]),
                                     attempted |-> st.attempted \cup {i},
                                     names |-> seen,
                                     running |-> TRUE])

\* update_mods after the manifest was loaded, as a function of the folder f0
\* at the start, the entries ms taken in the given order, the transfer
\* outcome of each entry, the files whose os.remove succeeds and the flag:
\* the entries downloaded for, the delete attempts, the files deleted, the
\* folder at the end and whether the run returned.
Reconcile(f0, ms, order, outs, removable, flag) ==
    LET st == LoopFrom(ms, order, outs, 1,
                       [fs |-> f0, attempted |-> {}, names |-> {}, running |-> TRUE])
        snapshot == { n \in Names : IsFile(f0[n]) }
        tried == IF st.running /\ flag
                 THEN { n \in snapshot : Orphan(n, st.names) }
                 ELSE {}
        gone == tried \cap removable
    IN [ attempted |-> st.attempted,
         tried |-> tried,
         gone |-> gone,
         fs |-> [ n \in Names |-> IF n \in gone THEN Absent ELSE st.fs[n] ],
         returned |-> st.running ]

\* Summary of the run that is ending, kept for the next one.
RunSummary(completed) ==
    IF ~keepHistory THEN NoPrev
    ELSE IF ~completed THEN [ ran |-> TRUE, completed |-> FALSE ]
    ELSE [ ran |-> TRUE,
           completed |-> TRUE,
           flag |-> remove_files,
           allok |-> /\ \A k \in 1..Len(downloads) : downloads[k].res = "ok"
                     /\ deleted = delAttempts ]

\* update_mods returned: run_update logs "Update complete!".
ReturnOk ==
    /\ pc = "done"
    /\ status' = "complete"
    /\ prev' = RunSummary(TRUE)
    /\ pc' = "idle"
    /\ UNCHANGED << remote, dirExists, fs, remove_files, manifest, mods,
                    existing_files, files_in_manifest, idx, target_url, pending,
                    removed_count, log, cause, downloads, delAttempts, deleted,
                    fs0, dirExists0, keepHistory >>

\* update_mods raised: run_update logs the error.
ReturnError ==
    /\ pc = "raised"
    /\ status' = "error"
    /\ prev' = RunSummary(FALSE)
    /\ pc' = "idle"
    /\ UNCHANGED << remote, dirExists, fs, remove_files, manifest, mods,
                    existing_files, files_in_manifest, idx, target_url, pending,
                    removed_count, log, cause, downloads, delAttempts, deleted,
                    fs0, dirExists0, keepHistory >>

Next ==
    \/ StartRun
    \/ FetchManifest
    \/ GetMods
    \/ ScanInventory
    \/ CheckMod
    \/ DownloadMod
    \/ BeginRemove
    \/ RemoveFile
    \/ EndRemove
    \/ ReturnOk
    \/ ReturnError

Spec == Init /\ [][Next]_vars

\* The same machine, keeping the summary of each run for the next.
SpecTwice == InitTwice /\ [][Next]_vars

\* The steps of update_mods between its call and its return or raise.
RunStep ==
    \/ FetchManifest
    \/ GetMods
    \/ ScanInventory
    \/ CheckMod
    \/ DownloadMod
    \/ BeginRemove
    \/ RemoveFile
    \/ EndRemove

(***************************************************************************)
(* Vocabulary of the properties                                            *)
(***************************************************************************)

\* The entry has both required keys.
WellFormed(m) == "name" \in DOMAIN m /\ "sha256" \in DOMAIN m

\* Positions in downloads of the download_file calls made for entry i.
AttemptsFor(i) == { k \in 1..Len(downloads) : downloads[k].i = i }

\* Names of the entries of the manifest this run loaded.
ManifestNames == { mods[i].name : i \in { j \in 1..Len(mods) : "name" \in DOMAIN mods[j] } }

\* The loop has finished entry i.
Processed(i) == idx > i

\* The "mods" list published at the manifest URL, empty when there is none.
Published ==
    IF /\ remote.valid
       /\ "modpack" \in DOMAIN remote.value
       /\ "mods" \in DOMAIN remote.value.modpack
    THEN remote.value.modpack.mods
    ELSE << >>

\* No name is published under two different digests.
OneDigestPerName ==
    \A i, j \in 1..Len(Published) :
        (WellFormed(Published[i]) /\ WellFormed(Published[j])
            /\ Published[i].name = Published[j].name)
        => Published[i].sha256 = Published[j].sha256

\* No entry before entry i lists the name of entry i under another digest.
NoEarlierOtherDigest(i) ==
    \A j \in 1..(i - 1) :
        (WellFormed(mods[j]) /\ mods[j].name = mods[i].name)
        => mods[j].sha256 = mods[i].sha256

\* No entry before entry i has the name of entry i.
FirstOfItsName(i) ==
    \A j \in 1..(i - 1) : "name" \in DOMAIN mods[j] => mods[j].name # mods[i].name

\* A run is under way or has just ended and the run before it completed
\* with the same remove_files flag.
SecondRun ==
    /\ pc # "idle"
    /\ prev.ran
    /\ prev.completed
    /\ prev.flag = remove_files

(***************************************************************************)
(* C1                                                                      *)
(***************************************************************************)

\* C1 as stated: whenever update_mods is run again after a completed run,
\* with the same manifest, the same flag and the directory as the first run
\* left it, the second run makes no download attempt and deletes no file.
C1_SecondRunDoesNothing ==
    SecondRun => (downloads = << >> /\ deleted = {})

\* C1, amended: if the first run completed, every download attempt it made
\* produced a file with the expected digest, every delete attempt it made
\* succeeded, and the manifest lists no name under two different digests,
\* then a second run with the same manifest and the same remove_files flag
\* makes no download attempt and deletes no file.
C1_IdempotentAfterCleanRun ==
    (SecondRun /\ prev.allok /\ OneDigestPerName)
        => (downloads = << >> /\ deleted = {})

\* A second run has gone through its whole pass, with removal enabled, after
\* a first run that completed and succeeded in all it attempted.
C1_Witness ==
    /\ SecondRun /\ prev.allok /\ OneDigestPerName
    /\ pc = "done"
    /\ remove_files
    /\ Len(mods) = MaxMods
    /\ downloads = << >> /\ deleted = {}

(***************************************************************************)
(* C2                                                                      *)
(***************************************************************************)

\* C2 as stated: an entry whose file is present with the expected digest
\* when the run starts gets no download attempt in that run.
C2_MatchingFileNeverRequested ==
    \A i \in 1..Len(mods) :
        (/\ WellFormed(mods[i])
         /\ IsFile(fs0[mods[i].name])
         /\ Sha256(fs0[mods[i].name]) = mods[i].sha256)
        => AttemptsFor(i) = {}

\* C2, amended: an entry whose file is present with the expected digest when
\* the run starts gets no download attempt in that run, provided no earlier
\* entry of the manifest lists the same name under a different digest.
C2_MatchingFileNotRequested ==
    \A i \in 1..Len(mods) :
        (/\ WellFormed(mods[i])
         /\ IsFile(fs0[mods[i].name])
         /\ Sha256(fs0[mods[i].name]) = mods[i].sha256
         /\ NoEarlierOtherDigest(i))
        => AttemptsFor(i) = {}

\* A completed run skipped an entry whose file matched and downloaded
\* another entry.
C2_Witness ==
    /\ pc = "done"
    /\ downloads # << >>
    /\ \E i \in 1..Len(mods) :
         /\ IsFile(fs0[mods[i].name])
         /\ Sha256(fs0[mods[i].name]) = mods[i].sha256
         /\ NoEarlierOtherDigest(i)
         /\ AttemptsFor(i) = {}

(***************************************************************************)
(* C3                                                                      *)
(***************************************************************************)

\* Entry i has had exactly one download attempt, at its resolved URL.
OneAttemptAtResolvedUrl(i) ==
    /\ Cardinality(AttemptsFor(i)) = 1
    /\ \A k \in AttemptsFor(i) : downloads[k].url = ResolveUrl(mods[i])

\* C3 as stated, for runs that complete: an entry with no local file of its
\* name when the run starts gets exactly one download attempt, at the URL
\* resolved for it.
C3_MissingFileRequestedOnce ==
    pc = "done" =>
        \A i \in 1..Len(mods) :
            ~IsFile(fs0[mods[i].name]) => OneAttemptAtResolvedUrl(i)

\* C3, amended: an entry with no local file of its name when the run starts,
\* and with no earlier entry of the same name in the manifest, never gets
\* more than one download attempt, and once the loop has finished the entry
\* it has had exactly one, at the URL resolved for it.
C3_FirstMissingRequestedOnce ==
    \A i \in 1..Len(mods) :
        (WellFormed(mods[i]) /\ ~IsFile(fs0[mods[i].name]) /\ FirstOfItsName(i))
        => /\ Cardinality(AttemptsFor(i)) <= 1
           /\ Processed(i) => OneAttemptAtResolvedUrl(i)

\* A completed run has downloaded a file that was missing, for the last
\* entry of a full manifest.
C3_Witness ==
    /\ pc = "done"
    /\ Len(mods) = MaxMods
    /\ fs0[mods[MaxMods].name] = Absent
    /\ FirstOfItsName(MaxMods)
    /\ OneAttemptAtResolvedUrl(MaxMods)

(***************************************************************************)
(* C4                                                                      *)
(***************************************************************************)

\* Some download attempt for name n failed in this run.
DownloadFailed(n) ==
    \E k \in 1..Len(downloads) : downloads[k].name = n /\ downloads[k].res = "failed"

\* C4 as stated: after a completed run with removal enabled the regular
\* files of the folder are the manifest's names, except that an entry whose
\* download failed may be absent; no file the manifest does not name remains.
C4_InventoryIsManifest ==
    (pc = "done" /\ remove_files) =>
        \A n \in Names :
            /\ (IsFile(fs[n]) => n \in ManifestNames)
            /\ ((n \in ManifestNames /\ ~IsFile(fs[n])) => DownloadFailed(n))

\* C4, amended: after a completed run with removal enabled the regular files
\* of the folder are the manifest's names, except that an entry whose
\* download failed may be absent and that a file not named by the manifest
\* remains when the attempt to delete it failed.
C4_InventoryIsManifestUnlessFailed ==
    (pc = "done" /\ remove_files) =>
        \A n \in Names :
            /\ ((IsFile(fs[n]) /\ n \notin ManifestNames) => n \in delAttempts \ deleted)
            /\ ((n \in ManifestNames /\ ~IsFile(fs[n])) => DownloadFailed(n))

\* The scenario of the specification: a file downloaded, a stale file
\* downloaded again and an orphan removed, leaving exactly the manifest's
\* names.
C4_Witness ==
    /\ pc = "done" /\ remove_files
    /\ Len(downloads) = 2
    /\ \E n \in ManifestNames : IsFile(fs0[n])
    /\ deleted # {}
    /\ { n \in Names : IsFile(fs[n]) } = ManifestNames

(***************************************************************************)
(* C5                                                                      *)
(***************************************************************************)

\* Messages that are about one manifest entry or one file.
PerEntryKinds ==
    { "Missing", "Outdated", "Up to date", "Downloading", "Download successful",
      "Hash mismatch after download", "Download failed", "Removed",
      "Failed to remove" }

\* C5: when the manifest request fails or its body is not JSON, the run
\* raises with nothing done: no download, no delete, no inventory scan, the
\* folder not created, the disk as it was, and no per-entry message; the
\* shell reports the error.
C5_FetchFailureDoesNothing ==
    cause \in {"fetch", "json"} =>
        /\ pc \in {"raised", "idle"}
        /\ pc = "idle" => status = "error"
        /\ downloads = << >>
        /\ delAttempts = {} /\ deleted = {}
        /\ existing_files = {}
        /\ fs = fs0
        /\ dirExists = dirExists0
        /\ \A k \in 1..Len(log) :
              log[k][1] \notin PerEntryKinds \cup {"Found existing files in mod folder"}

\* The request failed although a manifest with entries is published and the
\* folder does not exist yet.
C5_Witness ==
    /\ pc = "raised" /\ cause = "fetch"
    /\ ~dirExists
    /\ Len(Published) > 0

(***************************************************************************)
(* C6                                                                      *)
(***************************************************************************)

\* C6: when the run raises because a required key is absent from the
\* manifest (modpack, mods, or the name or sha256 of an entry at any
\* position), nothing of the manifest has been applied: no download has
\* written to the folder and no file was deleted, so the folder's files are
\* as they were when the run started.
C6_AllOrNothing ==
    cause = "key" => (fs = fs0 /\ deleted = {})

(***************************************************************************)
(* C7                                                                      *)
(***************************************************************************)

\* The entry target_url was last computed for: the entry the loop is at
\* while its download or its digest is pending, the one before otherwise.
ResolvedIdx == IF pc = "download" \/ cause = "hash" THEN idx ELSE idx - 1

\* The precedence with a fallback of <base> "mods/" <name>.
ClaimedUrl(m) ==
    IF "url" \in DOMAIN m THEN << m.url >>
    ELSE IF "file" \in DOMAIN m THEN << BASE_MOD_URL, m.file >>
    ELSE << BASE_MOD_URL, "mods/", m.name >>

\* The precedence with a fallback of <base> "your-modpack-repo/mods/" <name>.
AmendedUrl(m) ==
    IF "url" \in DOMAIN m THEN << m.url >>
    ELSE IF "file" \in DOMAIN m THEN << BASE_MOD_URL, m.file >>
    ELSE << BASE_MOD_URL, "your-modpack-repo/mods/", m.name >>

\* C7 as stated: the URL of every entry is its url field when present, else
\* the base URL joined with its file field when present, else the base URL
\* joined with "mods/" and its name.
C7_UrlPrecedenceModsSubpath ==
    /\ ResolvedIdx \in 1..Len(mods) => target_url = ClaimedUrl(mods[ResolvedIdx])
    /\ \A k \in 1..Len(downloads) : downloads[k].url = ClaimedUrl(mods[downloads[k].i])

\* C7, amended: the URL of every entry is its url field when present (also
\* when file is present too), else the base URL joined with its file field
\* when present, else the base URL joined with "your-modpack-repo/mods/" and
\* its name.
C7_UrlPrecedence ==
    /\ ResolvedIdx \in 1..Len(mods) => target_url = AmendedUrl(mods[ResolvedIdx])
    /\ \A k \in 1..Len(downloads) : downloads[k].url = AmendedUrl(mods[downloads[k].i])

\* A run downloaded an entry that has neither locator and an entry that has
\* both.
C7_Witness ==
    /\ pc = "done"
    /\ \E i, j \in 1..Len(mods) :
         /\ DOMAIN mods[i] = {"name", "sha256"}
         /\ DOMAIN mods[j] = {"name", "sha256", "url", "file"}
         /\ AttemptsFor(i) # {}
         /\ AttemptsFor(j) # {}

(***************************************************************************)
(* C8                                                                      *)
(***************************************************************************)

\* The run has ended, by returning or by raising.
RunEnded == pc \in {"done", "raised"}

\* Every entry of the loaded manifest has both required keys.
ValidManifest == \A i \in 1..Len(mods) : WellFormed(mods[i])

\* C8: with a manifest whose entries all have their required keys, whenever
\* a download raised for an entry, a download-failed message was recorded
\* for it, and the run ends only after the loop has gone through every later
\* entry and the removal phase was reached, that is, it ends by returning.
C8_DownloadFailureNeverAborts ==
    ValidManifest =>
        \A k \in 1..Len(downloads) :
            downloads[k].res = "failed" =>
                /\ \E m \in 1..Len(log) : log[m] = <<"Download failed", downloads[k].name>>
                /\ RunEnded => (idx > Len(mods) /\ pc = "done")

(***************************************************************************)
(* C9                                                                      *)
(***************************************************************************)

\* C9: an entry whose download arrived with a digest other than the expected
\* one has had that one download attempt and no other, os.remove was not
\* called on its file, and its file is on disk from then on to the end of
\* the run.
C9_MismatchOnlyReported ==
    \A k \in 1..Len(downloads) :
        downloads[k].res = "mismatch" =>
            /\ AttemptsFor(downloads[k].i) = {k}
            /\ downloads[k].name \notin delAttempts
            /\ IsFile(fs[downloads[k].name])
            /\ \E m \in 1..Len(log) :
                 log[m] = <<"Hash mismatch after download", downloads[k].name>>

\* A completed run with removal enabled replaced a file of the snapshot by a
\* download with the wrong digest, and removed an orphan.
C9_Witness ==
    /\ pc = "done" /\ remove_files
    /\ deleted # {}
    /\ \E k \in 1..Len(downloads) :
         /\ downloads[k].res = "mismatch"
         /\ downloads[k].name \in existing_files
         /\ Sha256(fs[downloads[k].name]) # mods[downloads[k].i].sha256

(***************************************************************************)
(* C10                                                                     *)
(***************************************************************************)

\* C10: a run with removal enabled that loaded a manifest whose entries all
\* have their required keys and took its inventory snapshot has, when it
\* ends, called os.remove on every file of the snapshot that no manifest
\* entry names; each failed delete left a message and the run still
\* returned.
C10_EveryOrphanAttempted ==
    (remove_files /\ RunEnded /\ cause \notin {"fetch", "json"}
                  /\ "modpack" \in DOMAIN manifest /\ "mods" \in DOMAIN manifest.modpack
                  /\ ValidManifest)
        => /\ delAttempts = existing_files \ ManifestNames
           /\ \A f \in delAttempts \ deleted :
                 /\ \E m \in 1..Len(log) : log[m] = <<"Failed to remove", f>>
                 /\ pc = "done"

(***************************************************************************)
(* C11                                                                     *)
(***************************************************************************)

\* What counts as a failure of manifest acquisition: the request, the JSON
\* parse, or a required key that is absent.
AcquisitionCauses == {"fetch", "json", "key"}

\* C11: update_mods raises, and run_update reports an error instead of
\* "Update complete!", only when manifest acquisition failed; a run in which
\* acquisition succeeded returns and is reported complete, whatever its
\* downloads, digest comparisons and deletes did.
C11_RaisesOnlyOnAcquisitionFailure ==
    /\ pc = "raised" => cause \in AcquisitionCauses
    /\ status = "error" => cause \in AcquisitionCauses
    /\ status = "complete" => cause = "none"

(***************************************************************************)
(* C12                                                                     *)
(***************************************************************************)

SummaryKinds == {"Removed file(s)", "No files needed removal"}

\* Positions of the summary messages in the log of this run.
SummaryPositions == { k \in 1..Len(log) : log[k][1] \in SummaryKinds }

\* The log ends with the one summary message, and it tells the number of
\* files this run deleted.
EndsWithSummary ==
    /\ SummaryPositions = {Len(log)}
    /\ IF deleted # {}
       THEN /\ log[Len(log)][1] = "Removed file(s)"
            /\ log[Len(log)][2] = Cardinality(deleted)
       ELSE log[Len(log)][1] = "No files needed removal"

\* C12 as stated, for runs that return: the run ends with exactly one
\* summary message, "Removed N file(s)" with N the number of files it
\* deleted when N > 0 and "No files needed removal" when it deleted none.
C12_AlwaysEndsWithSummary ==
    pc = "done" => EndsWithSummary

\* C12, amended: a run that returns with remove_files enabled ends with
\* exactly one summary message, "Removed N file(s)" with N the number of
\* files it deleted when N > 0 and "No files needed removal" when it deleted
\* none; a run with remove_files disabled emits no summary message.
C12_SummaryWhenRemovalEnabled ==
    /\ (pc = "done" /\ remove_files) => EndsWithSummary
    /\ (pc # "idle" /\ ~remove_files) => SummaryPositions = {}

\* A run deleted two orphans, failed to delete a third, and reported two.
C12_Witness ==
    /\ pc = "done" /\ remove_files
    /\ Cardinality(deleted) = 2
    /\ delAttempts # deleted
    /\ log[Len(log)] = <<"Removed file(s)", 2>>

(***************************************************************************)
(* C13                                                                     *)
(***************************************************************************)

\* The orders in which n entries can be taken.
Orders(n) == { p \in [1..n -> 1..n] : \A i, j \in 1..n : p[i] = p[j] => i = j }

\* The manifest order.
ManifestOrder == [ i \in 1..Len(mods) |-> i ]

\* The transfer outcome entry i met in this run; an entry for which the run
\* made no transfer is given a failed one.
OutcomeOf(i) ==
    IF AttemptsFor(i) # {}
    THEN downloads[CHOOSE k \in AttemptsFor(i) : TRUE].out
    ELSE <<"neterr", "-">>

\* What this run did.
ThisRun ==
    [ attempted |-> { downloads[k].i : k \in 1..Len(downloads) },
      tried |-> delAttempts,
      gone |-> deleted,
      fs |-> fs,
      returned |-> pc = "done" ]

\* What a run does that starts from the same folder and meets the same
\* outcomes, but takes the entries of the manifest in the given order.
RunInOrder(order) ==
    Reconcile(fs0, mods, order, [ i \in 1..Len(mods) |-> OutcomeOf(i) ], deleted,
              remove_files)

\* The run loaded its manifest and took the listing of the mod folder.
Scanned == \E k \in 1..Len(log) : log[k][1] = "Found existing files in mod folder"

\* No two entries of the loaded manifest have the same name.
DistinctNames ==
    \A i, j \in 1..Len(mods) :
        (WellFormed(mods[i]) /\ WellFormed(mods[j]) /\ mods[i].name = mods[j].name) => i = j

\* No entry is listed twice in the loaded manifest.
NoRepeatedEntry == \A i, j \in 1..Len(mods) : mods[i] = mods[j] => i = j

\* C13 as stated, for runs that return and manifests that list no entry
\* twice: taking the entries of the manifest in any order yields the same
\* download attempts, the same deleted files and the same final folder as
\* this run.
C13_OrderIndependent ==
    (pc = "done" /\ NoRepeatedEntry) => \A order \in Orders(Len(mods)) : RunInOrder(order) = ThisRun

\* C13, amended: for a manifest whose entries have distinct names and a run
\* that returns, taking the entries in any order, from the same initial
\* folder and with the same per-entry transfer outcomes and per-file delete
\* outcomes, yields the same download attempts, the same delete attempts and
\* deleted files and the same final folder.  (Every ended run that had
\* loaded its manifest is the run Reconcile computes for the manifest order.)
C13_OrderIndependentDistinctNames ==
    /\ (RunEnded /\ Scanned) => RunInOrder(ManifestOrder) = ThisRun
    /\ (pc = "done" /\ DistinctNames) =>
          \A order \in Orders(Len(mods)) : RunInOrder(order) = ThisRun

\* A run over two entries with different names downloaded for one of them,
\* found the other up to date and deleted an orphan.
C13_Witness ==
    /\ pc = "done"
    /\ Len(mods) = 2
    /\ DistinctNames
    /\ Len(downloads) = 1
    /\ deleted # {}
    /\ \E order \in Orders(2) : order # ManifestOrder /\ RunInOrder(order) = ThisRun

(***************************************************************************)
(* C14                                                                     *)
(***************************************************************************)

DecisionKinds == {"Missing", "Outdated", "Up to date"}
TransferKinds == {"Downloading", "Download successful",
                  "Hash mismatch after download", "Download failed"}
DeleteKinds == {"Removed", "Failed to remove"}
LoopKinds == DecisionKinds \cup TransferKinds

\* Positions in the log of this run of the messages of the given kinds.
At(kinds) == { k \in 1..Len(log) : log[k][1] \in kinds }

IsDecision(m) == m[1] \in DecisionKinds

\* The decisions of this run, in the order they were taken.
Decisions == SelectSeq(log, IsDecision)

\* The message at position k of the log belongs to the entry whose decision
\* or whose download request is the message just before it.
FollowsItsEntry(k) ==
    /\ k > 1
    /\ log[k - 1][2] = log[k][2]
    /\ IF log[k][1] = "Downloading"
       THEN log[k - 1][1] \in {"Missing", "Outdated"}
       ELSE log[k - 1][1] = "Downloading"

\* The log and the history of the run show one fetch, then one scan, then the
\* entries one at a time in manifest order, then the deletes.
StrictPhaseOrder ==
    LET ds == Decisions
        scan == "Found existing files in mod folder"
    IN /\ \A k \in 1..Len(log) :
            /\ (log[k][1] = "Fetching manifest...") = (k = 1)
            /\ log[k][1] = scan => \A t \in (k + 1)..Len(log) : log[t][1] # scan
            /\ log[k][1] \in LoopKinds => \E s \in 2..(k - 1) : log[s][1] = scan
            /\ log[k][1] \in TransferKinds => FollowsItsEntry(k)
            /\ log[k][1] \in DeleteKinds =>
                  /\ Len(ds) = Len(mods)
                  /\ \A t \in (k + 1)..Len(log) : log[t][1] \notin LoopKinds
       /\ Len(ds) <= Len(mods)
       /\ \A j \in 1..Len(ds) : ds[j][2] = mods[j].name
       /\ Cardinality(At({"Downloading"})) = Len(downloads)
       /\ \A j \in 1..Len(downloads) :
            /\ j > 1 => downloads[j - 1].i < downloads[j].i
            /\ downloads[j].name = mods[downloads[j].i].name

\* C14: a run is strictly sequential.  It performs exactly one manifest
\* fetch, which precedes the one inventory scan; the scan precedes every
\* download attempt; the entries are processed one at a time in manifest
\* order; and every download attempt precedes every delete attempt.
C14_StrictPhaseOrder == [] StrictPhaseOrder

\* A run downloaded for both entries and then attempted a delete.
C14_Witness ==
    /\ pc = "done"
    /\ Len(downloads) = 2
    /\ delAttempts # {}
    /\ At(DeleteKinds) # {}

(***************************************************************************)
(* C15                                                                     *)
(***************************************************************************)

\* The path named by the entry is absent, or it is a file whose digest
\* differs from the digest the entry expects.
NeedsDownload(mod) ==
    \/ ~Exists(fs[mod.name])
    \/ IsFile(fs[mod.name]) /\ Sha256(fs[mod.name]) # mod.sha256

\* The step that decides the entry at idx.
DecisionStep ==
    IF NeedsDownload(mods[idx])
    THEN /\ pc' = "download"
         /\ idx' = idx
         /\ fs' = fs
    ELSE /\ pc' # "download"
         /\ downloads' = downloads
         /\ fs' = fs
         /\ IsFile(fs[mods[idx].name]) =>
               /\ idx' = idx + 1
               /\ log' = Append(log, <<"Up to date", mods[idx].name>>)

\* The step that follows a decision to download: one download_file call for
\* the entry at idx.
AttemptStep ==
    /\ Len(downloads') = Len(downloads) + 1
    /\ downloads'[Len(downloads')].i = idx
    /\ downloads'[Len(downloads')].name = mods[idx].name

\* C15: for every entry, a download is attempted if and only if, at the
\* moment the entry is processed, nothing exists at the entry's name or the
\* existing file's digest differs from the expected digest; when the digest
\* matches, the outcome is up to date, no download is attempted and the file
\* is left unchanged.
C15_DownloadIffMissingOrOutdated ==
    [][ /\ (pc = "loop" /\ idx <= Len(mods) /\ WellFormed(mods[idx])) => DecisionStep
        /\ pc = "download" => AttemptStep
        /\ Len(downloads') > Len(downloads) => pc = "download" ]_vars

\* A run found one entry's file up to date and the other's outdated, and
\* downloaded only for the latter.
C15_Witness ==
    /\ pc = "done"
    /\ At({"Up to date"}) # {}
    /\ At({"Outdated"}) # {}
    /\ Len(downloads) = 1

(***************************************************************************)
(* C16                                                                     *)
(***************************************************************************)

\* The regular files that were in the mod folder when the run started.
Snapshot0 == { n \in Names : IsFile(fs0[n]) }

\* C16: deletion is safe.  The files a run deletes, and the files it tries to
\* delete, are files of the start-of-run snapshot whose names are not manifest
\* entry names: a manifest-named file is never deleted and a file created
\* during the run is never deleted.
C16_DeletesOnlySnapshotOrphans ==
    /\ deleted \subseteq delAttempts
    /\ delAttempts # {} => existing_files = Snapshot0
    /\ delAttempts \subseteq Snapshot0 \ ManifestNames
    /\ \A k \in At(DeleteKinds) : log[k][2] \in Snapshot0 \ ManifestNames
    /\ \A k \in 1..Len(downloads) : downloads[k].name \notin delAttempts

\* A run created one manifest file, kept another that was already there and
\* deleted an orphan.
C16_Witness ==
    /\ pc = "done"
    /\ deleted # {}
    /\ \E n \in ManifestNames : ~Exists(fs0[n]) /\ IsFile(fs[n])
    /\ \E n \in ManifestNames : IsFile(fs0[n]) /\ fs[n] = fs0[n]

(***************************************************************************)
(* C17                                                                     *)
(***************************************************************************)

\* Names for which this run called download_file.
DownloadedNames == { downloads[k].name : k \in 1..Len(downloads) }

\* C17: in a run with remove_files disabled no delete is attempted, and every
\* file that was in the mod folder before the run is still there, with its
\* content unchanged unless a download was made for a manifest entry of that
\* name.
C17_NoRemovalWhenDisabled ==
    ~remove_files =>
        /\ delAttempts = {}
        /\ deleted = {}
        /\ At(DeleteKinds \cup {"Checking for files to remove..."}) = {}
        /\ \A n \in Names :
              IsFile(fs0[n]) =>
                  /\ IsFile(fs[n])
                  /\ fs[n] # fs0[n] => n \in DownloadedNames \cap ManifestNames

\* A run with remove_files disabled returned: it replaced one file and left a
\* file the manifest does not name where it was.
C17_Witness ==
    /\ pc = "done"
    /\ ~remove_files
    /\ \E n \in Names : IsFile(fs0[n]) /\ n \notin ManifestNames /\ fs[n] = fs0[n]
    /\ \E n \in Names : IsFile(fs0[n]) /\ fs[n] # fs0[n]

(***************************************************************************)
(* C18                                                                     *)
(***************************************************************************)

\* Positions in the log of the delete attempts made for the file.
DeleteAttemptsFor(n) == { k \in At(DeleteKinds) : log[k][2] = n }

\* No entry has been downloaded for twice and no file has been tried for
\* deletion twice; only snapshot files are tried.
AtMostOnce ==
    /\ \A i \in 1..Len(mods) : Cardinality(AttemptsFor(i)) <= 1
    /\ \A k \in 1..Len(downloads) : downloads[k].i \in 1..Len(mods)
    /\ \A n \in Names : Cardinality(DeleteAttemptsFor(n)) <= 1
    /\ \A k \in At(DeleteKinds) : log[k][2] \in existing_files

\* update_mods has been called and has neither returned nor raised.
InRun == pc \notin {"idle", "done", "raised"}

\* The phases of a run, counted from the end.
PhaseRank ==
    CASE pc = "fetch" -> 5
      [] pc = "mods" -> 4
      [] pc = "scan" -> 3
      [] pc \in {"loop", "download"} -> 2
      [] pc = "remove" -> 1
      [] OTHER -> 0

\* The steps the current phase can still take: two per entry not yet
\* processed, one per snapshot file not yet visited.
StepsLeft ==
    CASE pc = "loop" -> 2 * (Len(mods) + 1 - idx) + 1
      [] pc = "download" -> 2 * (Len(mods) + 1 - idx)
      [] pc = "remove" -> Cardinality(pending)
      [] OTHER -> 0

\* The step moves to a later phase, or uses up one of the steps left to the
\* phase it stays in.
Progress ==
    \/ PhaseRank' < PhaseRank
    \/ PhaseRank' = PhaseRank /\ StepsLeft' < StepsLeft

\* C18: when every network and disk operation returns, every run terminates
\* (update_mods returns or raises), having made at most one download attempt
\* per manifest entry and at most one delete attempt per snapshot file: a run
\* in progress always has a next step, every step brings it nearer to its
\* end by a measure that cannot fall below zero, and no attempt is repeated.
C18_TerminatesWithBoundedAttempts ==
    /\ [] AtMostOnce
    /\ [] (StepsLeft >= 0)
    /\ [] (InRun => ENABLED RunStep)
    /\ [][InRun => Progress]_vars

\* A run ended after one download attempt for each of two entries, one of
\* them failed, and one delete attempt for each of two snapshot files.
C18_Witness ==
    /\ pc = "done"
    /\ Len(downloads) = 2
    /\ \E k \in 1..2 : downloads[k].res = "failed"
    /\ Cardinality(delAttempts) = 2
    /\ Cardinality(At(DeleteKinds)) = 2

TypeOK ==
    /\ status \in {"none", "running", "complete", "error"}
    /\ pc \in {"idle", "fetch", "mods", "scan", "loop", "download", "remove", "done", "raised"}
    /\ fs \in [Names -> PathStates]
    /\ idx \in 1..(MaxMods + 2)
====
